---- MODULE Spec2Model ----
(***************************************************************************)
(* Model of crules' sync core: SyncManager.Init, offerMainLocationOptions, *)
(* Merge, Sync and syncToAll (package core), over an abstract filesystem   *)
(* and registry.  One behaviour runs one operation of a constructed        *)
(* SyncManager from an arbitrary state of the disk: the disk is shared     *)
(* with the operator, so the operations are examined from every state the  *)
(* code itself guards against (mainPath missing, target missing, project   *)
(* directories removed since they were registered).                        *)
(***************************************************************************)
EXTENDS Integers, Sequences, FiniteSets, TLC

\* ------------------------------------------------------------------ bounds

\* Number of project directories that may exist on disk / be registered.
NumProjects == 3

\* ------------------------------------------------------------ value spaces

Paths == 1..NumProjects

\* The current working directory (os.Getwd) is project path 1.
Cwd == 1

\* Path ids used in the call log: mainPath, and "no path".
MainId == 0

NoPath == MainId - 1

\* File names a rules directory may hold; *.mdc files are rule files.
Files == {"rule.mdc", "notes.txt"}

RuleFiles == {"rule.mdc"}

\* Repository URLs the operator may enter (the first is the default).
DefaultGitRepo == "git@github.com:nsnarender5511/AgenticSystem.git"

URLs == {DefaultGitRepo, "git@host:rules.git", "git@host:missing.git"}

AccessibleRepos == {DefaultGitRepo, "git@host:rules.git"}

Options == <<"Create empty directory structure",
             "Fetch from git repository",
             "Cancel operation">>

\* A directory: absent, or present with a set of files.
NoDir == [exists |-> FALSE, files |-> {}]

EmptyDir == [exists |-> TRUE, files |-> {}]

Dir(fs) == [exists |-> TRUE, files |-> fs]

AllDirs == {NoDir} \cup {Dir(fs) : fs \in SUBSET Files}

\* Return values (Go error messages; "nil" is success).
OK == "nil"

ErrCancelled == "operation cancelled by user"

ErrCwd == "cannot get current directory"

ErrMDC == "failed to check for .mdc files"

ErrList == "failed to list directory contents"

ErrCopy == "copy error"

ErrCopyRules == "failed to copy rules: copy error"

ErrCopyMain == "failed to copy to main: copy error"

ErrRegistry == "registry persistence error"

ErrNotFound == "rules directory not found in current directory"

\* ------------------------------------------------- external collaborators

DirExists(d) == d.exists

HasMDCFiles(d) == d.files \cap RuleFiles # {}

ListDirectoryContents(d) == d.files

\* CopyDir(src, dst): additive overwrite copy.  Fails when src is missing;
\* may fail part-way, leaving dst untouched or holding some of src's files.
CopyDirResults(src, dst) ==
  IF ~src.exists
  THEN {[ok |-> FALSE, dst |-> dst]}
  ELSE {[ok |-> TRUE, dst |-> Dir(dst.files \cup src.files)]}
       \cup {[ok |-> FALSE, dst |-> dst]}
       \cup {[ok |-> FALSE, dst |-> Dir(dst.files \cup s)] :
               s \in (SUBSET src.files) \ {src.files}}

\* os.RemoveAll(path): removes the tree, or fails leaving part of it.
RemoveAllResults(d) ==
  {[ok |-> TRUE, dir |-> NoDir]}
  \cup {[ok |-> FALSE, dir |-> Dir(s)] : s \in SUBSET d.files}

\* os.MkdirAll(path): creates the directory if absent, or fails.
MkdirAllResults(d) ==
  {[ok |-> TRUE, dir |-> IF d.exists THEN d ELSE EmptyDir],
   [ok |-> FALSE, dir |-> d]}

\* git.IsValidRepo(url): the URL resolves to an accessible repository.
IsValidRepo(url) == url \in AccessibleRepos

\* git.Clone(url, dest): on success dest holds the repository's files; on
\* failure a partial artifact may be left at dest.
CloneResults(dest) ==
  {[ok |-> FALSE, dir |-> dest]}
  \cup {[ok |-> FALSE, dir |-> Dir(dest.files \cup s)] : s \in SUBSET Files}
  \cup (IF dest.exists /\ dest.files # {}
        THEN {}
        ELSE {[ok |-> TRUE, dir |-> Dir(s)] : s \in SUBSET Files})

\* git.CleanupOnFailure(dest): best-effort removal of a partial clone.
CleanupResults(dest) == {NoDir, dest}

\* Registry.GetProjects: the entries in insertion order.
GetProjects(reg) == reg

Range(s) == {s[i] : i \in 1..Len(s)}

\* Registry.AddProject: append-if-absent; a failed write leaves it as it was.
AddProjectResults(reg, p) ==
  {[ok |-> TRUE, reg |-> IF p \in Range(reg) THEN reg ELSE Append(reg, p)],
   [ok |-> FALSE, reg |-> reg]}

\* Sequences over Paths without repetition (the registry's uniqueness).
UniqueSeqs ==
  {s \in UNION {[1..n -> Paths] : n \in 0..NumProjects} :
     \A i, j \in 1..Len(s) : i # j => s[i] # s[j]}

\* The application directories NewSyncManager ensures (appPaths).
AppDirNames == {"config", "data", "log"}

\* No GitCommandService has been made.
NoGitService ==
  [arg |-> "none", executor |-> "none", commands |-> <<>>, returns |-> <<>>]

\* ------------------------------------------------------------------ state

VARIABLES
  mainDir,     \* the directory at sm.mainPath
  projExists,  \* projExists[p]: project root p exists on disk
  rules,       \* rules[p]: the rules subdirectory of project p
  registry,    \* sm.registry: sequence of project paths
  op,          \* the operation running: "none", "Init", "Merge", "Sync"
  pc,          \* position inside the operation
  outcome,     \* the operation's return value once pc = "done"
  gitURL,      \* offerMainLocationOptions: the URL entered
  projects,    \* syncToAll: the registry snapshot
  idx,         \* syncToAll: index of the next project of the snapshot
  succeeded,   \* syncToAll: counter
  failed,      \* syncToAll: counter
  prompts,     \* log of operator prompts issued, with the answers
  calls,       \* log of collaborator calls made, with their results
  pre,         \* the disk and registry when the operation started
  getwdOk,     \* whether os.Getwd succeeds in this process
  appDirs,     \* appDirs[d]: the config, data or log directory exists
  git          \* the GitCommandService and the commands it has executed

vars == <<mainDir, projExists, rules, registry, op, pc, outcome, gitURL,
          projects, idx, succeeded, failed, prompts, calls, pre,
          getwdOk, appDirs, git>>

disk == <<mainDir, projExists, rules>>

fanout == <<projects, idx, succeeded, failed>>

\* What no operation of a constructed SyncManager writes.
env == <<pre, getwdOk, appDirs, git>>

Snapshot == [mainDir |-> mainDir, rules |-> rules, registry |-> registry]

Call(fn, dst, ok) == [fn |-> fn, dst |-> dst, ok |-> ok]

Prompt(kind, answer) == [kind |-> kind, answer |-> answer]

YesNo(b) == IF b THEN "yes" ELSE "no"

Return(o) == pc' = "done" /\ outcome' = o

\* The current directory exists and its rules subdirectory is in any state.
\* Another project's root is missing (and so has no rules subdirectory) or
\* present with a rules subdirectory from an earlier sync.
OtherProjectRules == Dir({"notes.txt"})

InitialState ==
  /\ mainDir \in AllDirs
  /\ projExists \in [Paths -> BOOLEAN]
  /\ projExists[Cwd]
  /\ rules \in [Paths -> AllDirs]
  /\ \A p \in Paths \ {Cwd} :
       rules[p] = IF projExists[p] THEN OtherProjectRules ELSE NoDir
  /\ registry \in UniqueSeqs
  /\ op = "none"
  /\ pc = "idle"
  /\ outcome = "none"
  /\ gitURL = "none"
  /\ projects = <<>>
  /\ idx = 0
  /\ succeeded = 0
  /\ failed = 0
  /\ prompts = <<>>
  /\ calls = <<>>
  /\ pre = Snapshot
  /\ getwdOk \in BOOLEAN
  /\ appDirs = [d \in AppDirNames |-> TRUE]
  /\ git = NoGitService

\* ------------------------------------------------------------------- Sync

\* Variant: the copy's error is dropped.
SyncResultSwallowed(ok) == OK

\* Sync, lines 312-318: the copy's own error is returned as it is.
SyncResult(ok) == IF ok THEN OK ELSE ErrCopy

\* SyncManager.Sync, lines 302-319: Getwd, then one unconditional copy
\* mainPath -> <cwd>/<rulesDirName>.
Sync ==
  /\ pc = "idle"
  /\ op' = "Sync"
  /\ IF ~getwdOk
     THEN /\ Return(ErrCwd)
          /\ UNCHANGED <<disk, calls>>
     ELSE \E r \in CopyDirResults(mainDir, rules[Cwd]) :
            /\ rules' = [rules EXCEPT ![Cwd] = r.dst]
            /\ calls' = Append(calls, Call("CopyDir", Cwd, r.ok))
            /\ Return(SyncResult(r.ok))
            /\ UNCHANGED <<mainDir, projExists>>
  /\ UNCHANGED <<registry, gitURL, fanout, prompts, env>>

\* ------------------------------------------------------------------ Merge

\* Variant: the precondition is not checked.
MergeSourceNeverMissing(src) == FALSE

\* Merge, lines 283-286: the rules subdirectory of the current directory is
\* required.
MergeSourceMissing(src) == ~DirExists(src)

\* Merge, lines 275-286: Getwd and the precondition.
MergeCheckSource ==
  /\ pc = "idle"
  /\ op' = "Merge"
  /\ IF ~getwdOk
     THEN Return(ErrCwd)
     ELSE IF MergeSourceMissing(rules[Cwd])
          THEN Return(ErrNotFound)
          ELSE pc' = "merge_copy" /\ UNCHANGED outcome
  /\ UNCHANGED <<disk, registry, gitURL, fanout, prompts, calls, env>>

\* Variant: the error of the copy to main is logged but not returned.
MergeCopyToMainIgnoringError ==
  /\ pc = "merge_copy"
  /\ \E r \in CopyDirResults(rules[Cwd], mainDir) :
       /\ mainDir' = r.dst
       /\ calls' = Append(calls, Call("CopyDir", MainId, r.ok))
  /\ pc' = "fanout_start"
  /\ UNCHANGED <<projExists, rules, registry, op, outcome, gitURL, fanout,
                 prompts, env>>

\* Merge, lines 288-294: copy <cwd>/<rulesDirName> -> mainPath.
MergeCopyToMain ==
  /\ pc = "merge_copy"
  /\ \E r \in CopyDirResults(rules[Cwd], mainDir) :
       /\ mainDir' = r.dst
       /\ calls' = Append(calls, Call("CopyDir", MainId, r.ok))
       /\ IF r.ok
          THEN pc' = "fanout_start" /\ UNCHANGED outcome
          ELSE Return(ErrCopyMain)
  /\ UNCHANGED <<projExists, rules, registry, op, gitURL, fanout, prompts, env>>

\* syncToAll, lines 323-327: snapshot of the registry, counters at zero.
SyncToAllStart ==
  /\ pc = "fanout_start"
  /\ projects' = GetProjects(registry)
  /\ idx' = 1
  /\ succeeded' = 0
  /\ failed' = 0
  /\ pc' = "fanout"
  /\ UNCHANGED <<disk, registry, op, outcome, gitURL, prompts, calls, env>>

\* Variant: the loop is left at the first project that fails.
AfterProjectStopOnFailure(i, n, ok) == IF ok THEN i + 1 ELSE n + 1

\* syncToAll, lines 329-348: the range loop moves to the next project
\* whatever happened to this one.
AfterProject(i, n, ok) == i + 1

\* Variant: a project whose directory is missing is dropped from the
\* registry while it is skipped.
SyncToAllStepPruning ==
  /\ pc = "fanout"
  /\ idx <= Len(projects)
  /\ LET project == projects[idx]
         IsOther(p) == p # project
     IN
       IF ~projExists[project]
       THEN /\ failed' = failed + 1
            /\ calls' = Append(calls, Call("DirExists", project, FALSE))
            /\ registry' = SelectSeq(registry, IsOther)
            /\ UNCHANGED <<rules, succeeded>>
       ELSE \E r \in CopyDirResults(mainDir, rules[project]) :
              /\ rules' = [rules EXCEPT ![project] = r.dst]
              /\ calls' = calls \o <<Call("DirExists", project, TRUE),
                                     Call("CopyDir", project, r.ok)>>
              /\ IF r.ok
                 THEN succeeded' = succeeded + 1 /\ UNCHANGED failed
                 ELSE failed' = failed + 1 /\ UNCHANGED succeeded
              /\ UNCHANGED registry
  /\ idx' = idx + 1
  /\ UNCHANGED <<mainDir, projExists, op, pc, outcome, gitURL, projects,
                 prompts, env>>

\* syncToAll, lines 329-348: one iteration of the loop.
SyncToAllStep ==
  /\ pc = "fanout"
  /\ idx <= Len(projects)
  /\ LET project == projects[idx] IN
       IF ~projExists[project]
       THEN /\ failed' = failed + 1
            /\ calls' = Append(calls, Call("DirExists", project, FALSE))
            /\ idx' = AfterProject(idx, Len(projects), FALSE)
            /\ UNCHANGED <<rules, succeeded>>
       ELSE \E r \in CopyDirResults(mainDir, rules[project]) :
              /\ rules' = [rules EXCEPT ![project] = r.dst]
              /\ calls' = calls \o <<Call("DirExists", project, TRUE),
                                     Call("CopyDir", project, r.ok)>>
              /\ IF r.ok
                 THEN succeeded' = succeeded + 1 /\ UNCHANGED failed
                 ELSE failed' = failed + 1 /\ UNCHANGED succeeded
              /\ idx' = AfterProject(idx, Len(projects), r.ok)
  /\ UNCHANGED <<mainDir, projExists, registry, op, pc, outcome, gitURL,
                 projects, prompts, env>>

\* Variant: the batch is reported as failed when a project failed.
SyncToAllEndEscalating ==
  /\ pc = "fanout"
  /\ idx > Len(projects)
  /\ Return(IF failed > 0 THEN "sync to all projects failed" ELSE OK)
  /\ UNCHANGED <<disk, registry, op, gitURL, fanout, prompts, calls, env>>

\* syncToAll, lines 350-352, and Merge, line 298: the loop is over; the
\* counts are logged and nil is returned.
SyncToAllEnd ==
  /\ pc = "fanout"
  /\ idx > Len(projects)
  /\ Return(OK)
  /\ UNCHANGED <<disk, registry, op, gitURL, fanout, prompts, calls, env>>

\* ------------------------------------------------------------------- Init

\* Variant: only a missing main location needs setup.
MainLocationNeedsSetupIfMissing(main) == ~DirExists(main)

\* Init, lines 113-132: the main location needs setup when it is missing or
\* holds no .mdc file.
MainLocationNeedsSetup(main) == ~DirExists(main) \/ ~HasMDCFiles(main)

\* Init, lines 136-139: offerMainLocationOptions returned false.
OfferReturnedFalse == Return(ErrCancelled)

\* Variant: the answer to the removal prompt is ignored.
RemoveAssumed(yes) == TRUE

\* offerMainLocationOptions, lines 206 and 237: the answer to "Remove
\* existing directory ...?" lets the removal go ahead.
RemoveConfirmed(yes) == yes

\* Variant: the answer to the overwrite prompt is ignored.
OverwriteAssumed(yes) == TRUE

\* Init, line 158: the answer to "Do you want to continue and overwrite
\* these files?" lets the copy go ahead.
OverwriteConfirmed(yes) == yes

\* Init, lines 103-132: Getwd, then the check of the main location.
InitCheckMainLocation ==
  /\ pc = "idle"
  /\ op' = "Init"
  /\ \E mdcOk \in BOOLEAN :
       IF ~getwdOk
       THEN Return(ErrCwd)
       ELSE IF DirExists(mainDir) /\ ~mdcOk
            THEN Return(ErrMDC)
            ELSE IF MainLocationNeedsSetup(mainDir)
                 THEN pc' = "offer" /\ UNCHANGED outcome
                 ELSE pc' = "check_target" /\ UNCHANGED outcome
  /\ UNCHANGED <<disk, registry, gitURL, fanout, prompts, calls, env>>

\* offerMainLocationOptions, lines 189-197 and 268-270: the three-way choice.
OfferChoice ==
  /\ pc = "offer"
  /\ \E choice \in 0..2 :
       /\ prompts' = Append(prompts, Prompt("choice", Options[choice + 1]))
       /\ CASE choice = 0 -> pc' = "create" /\ UNCHANGED outcome
            [] choice = 1 -> pc' = "fetch_url" /\ UNCHANGED outcome
            [] OTHER -> OfferReturnedFalse
  /\ UNCHANGED <<disk, registry, op, gitURL, fanout, calls, env>>

\* Variant: a declined removal shows the setup choice again.
CreateEmptyConfirmBackToMenu ==
  /\ pc = "create"
  /\ IF DirExists(mainDir)
     THEN \E yes \in BOOLEAN :
            /\ prompts' = Append(prompts, Prompt("confirm_remove", YesNo(yes)))
            /\ pc' = IF yes THEN "create_remove" ELSE "offer"
            /\ UNCHANGED outcome
     ELSE pc' = "create_mkdir" /\ UNCHANGED <<outcome, prompts>>
  /\ UNCHANGED <<disk, registry, op, gitURL, fanout, calls, env>>

\* offerMainLocationOptions, lines 199-209: an existing main directory is
\* removed only after a confirmation.
CreateEmptyConfirm ==
  /\ pc = "create"
  /\ IF DirExists(mainDir)
     THEN \E yes \in BOOLEAN :
            /\ prompts' = Append(prompts, Prompt("confirm_remove", YesNo(yes)))
            /\ IF RemoveConfirmed(yes)
               THEN pc' = "create_remove" /\ UNCHANGED outcome
               ELSE OfferReturnedFalse
     ELSE pc' = "create_mkdir" /\ UNCHANGED <<outcome, prompts>>
  /\ UNCHANGED <<disk, registry, op, gitURL, fanout, calls, env>>

\* offerMainLocationOptions, lines 211-216: os.RemoveAll(mainPath).
CreateEmptyRemove ==
  /\ pc = "create_remove"
  /\ \E r \in RemoveAllResults(mainDir) :
       /\ mainDir' = r.dir
       /\ calls' = Append(calls, Call("RemoveAll", MainId, r.ok))
       /\ IF r.ok
          THEN pc' = "create_mkdir" /\ UNCHANGED outcome
          ELSE OfferReturnedFalse
  /\ UNCHANGED <<projExists, rules, registry, op, gitURL, fanout, prompts, env>>

\* offerMainLocationOptions, lines 219-225: os.MkdirAll(mainPath).
CreateEmptyMkdir ==
  /\ pc = "create_mkdir"
  /\ \E r \in MkdirAllResults(mainDir) :
       /\ mainDir' = r.dir
       /\ calls' = Append(calls, Call("MkdirAll", MainId, r.ok))
       /\ IF r.ok
          THEN pc' = "check_target" /\ UNCHANGED outcome
          ELSE OfferReturnedFalse
  /\ UNCHANGED <<projExists, rules, registry, op, gitURL, fanout, prompts, env>>

\* offerMainLocationOptions, lines 228-230: the URL prompt.
FetchPromptURL ==
  /\ pc = "fetch_url"
  /\ \E url \in URLs :
       /\ gitURL' = url
       /\ prompts' = Append(prompts, Prompt("url", url))
  /\ pc' = "fetch_confirm"
  /\ UNCHANGED <<disk, registry, op, outcome, fanout, calls, env>>

\* offerMainLocationOptions, lines 232-240.
FetchConfirm ==
  /\ pc = "fetch_confirm"
  /\ IF DirExists(mainDir)
     THEN \E yes \in BOOLEAN :
            /\ prompts' = Append(prompts, Prompt("confirm_remove", YesNo(yes)))
            /\ IF RemoveConfirmed(yes)
               THEN pc' = "fetch_remove" /\ UNCHANGED outcome
               ELSE OfferReturnedFalse
     ELSE pc' = "fetch_validate" /\ UNCHANGED <<outcome, prompts>>
  /\ UNCHANGED <<disk, registry, op, gitURL, fanout, calls, env>>

\* offerMainLocationOptions, lines 242-248: os.RemoveAll(mainPath).
FetchRemove ==
  /\ pc = "fetch_remove"
  /\ \E r \in RemoveAllResults(mainDir) :
       /\ mainDir' = r.dir
       /\ calls' = Append(calls, Call("RemoveAll", MainId, r.ok))
       /\ IF r.ok
          THEN pc' = "fetch_validate" /\ UNCHANGED outcome
          ELSE OfferReturnedFalse
  /\ UNCHANGED <<projExists, rules, registry, op, gitURL, fanout, prompts, env>>

\* offerMainLocationOptions, lines 251-256: git.IsValidRepo(gitURL).
FetchValidate ==
  /\ pc = "fetch_validate"
  /\ calls' = Append(calls, Call("IsValidRepo", NoPath, IsValidRepo(gitURL)))
  /\ IF IsValidRepo(gitURL)
     THEN pc' = "fetch_clone" /\ UNCHANGED outcome
     ELSE OfferReturnedFalse
  /\ UNCHANGED <<disk, registry, op, gitURL, fanout, prompts, env>>

\* Variant: a failed clone is reported without the cleanup.
FetchCloneWithoutCleanup ==
  /\ pc = "fetch_clone"
  /\ \E r \in CloneResults(mainDir) :
       /\ mainDir' = r.dir
       /\ calls' = Append(calls, Call("Clone", MainId, r.ok))
       /\ IF r.ok
          THEN pc' = "check_target" /\ UNCHANGED outcome
          ELSE OfferReturnedFalse
  /\ UNCHANGED <<projExists, rules, registry, op, gitURL, fanout, prompts, env>>

\* offerMainLocationOptions, lines 258-266: git.Clone, and
\* git.CleanupOnFailure when it fails.
FetchClone ==
  /\ pc = "fetch_clone"
  /\ \E r \in CloneResults(mainDir) :
       IF r.ok
       THEN /\ mainDir' = r.dir
            /\ calls' = Append(calls, Call("Clone", MainId, TRUE))
            /\ pc' = "check_target"
            /\ UNCHANGED outcome
       ELSE \E c \in CleanupResults(r.dir) :
              /\ mainDir' = c
              /\ calls' = calls \o <<Call("Clone", MainId, FALSE),
                                     Call("CleanupOnFailure", MainId, TRUE)>>
              /\ OfferReturnedFalse
  /\ UNCHANGED <<projExists, rules, registry, op, gitURL, fanout, prompts, env>>

\* Variant: the target is listed but the operator is not asked.
InitCheckTargetWithoutPrompt ==
  /\ pc = "check_target"
  /\ IF ~DirExists(rules[Cwd])
     THEN pc' = "copy" /\ UNCHANGED <<outcome, calls>>
     ELSE \E listOk \in BOOLEAN :
            /\ calls' = Append(calls, Call("ListDirectoryContents", Cwd, listOk))
            /\ IF ~listOk
               THEN Return(ErrList)
               ELSE pc' = "copy" /\ UNCHANGED outcome
  /\ UNCHANGED <<disk, registry, op, gitURL, fanout, prompts, env>>

\* Init, lines 142-165: an existing, non-empty target is listed and the
\* operator is asked before it is overwritten.
InitCheckTarget ==
  /\ pc = "check_target"
  /\ IF ~DirExists(rules[Cwd])
     THEN pc' = "copy" /\ UNCHANGED <<outcome, prompts, calls>>
     ELSE \E listOk \in BOOLEAN :
            /\ calls' = Append(calls, Call("ListDirectoryContents", Cwd, listOk))
            /\ IF ~listOk
               THEN Return(ErrList) /\ UNCHANGED prompts
               ELSE IF ListDirectoryContents(rules[Cwd]) # {}
                    THEN \E yes \in BOOLEAN :
                           /\ prompts' = Append(prompts,
                                  Prompt("confirm_overwrite", YesNo(yes)))
                           /\ IF OverwriteConfirmed(yes)
                              THEN pc' = "copy" /\ UNCHANGED outcome
                              ELSE Return(ErrCancelled)
                    ELSE pc' = "copy" /\ UNCHANGED <<outcome, prompts>>
  /\ UNCHANGED <<disk, registry, op, gitURL, fanout, env>>

\* Variant: the copy's error is logged and the registration still runs.
InitCopyIgnoringError ==
  /\ pc = "copy"
  /\ \E r \in CopyDirResults(mainDir, rules[Cwd]) :
       /\ rules' = [rules EXCEPT ![Cwd] = r.dst]
       /\ calls' = Append(calls, Call("CopyDir", Cwd, r.ok))
  /\ pc' = "register"
  /\ UNCHANGED <<mainDir, projExists, registry, op, outcome, gitURL, fanout,
                 prompts, env>>

\* Init, lines 167-172: copy mainPath -> <cwd>/<rulesDirName>.
InitCopy ==
  /\ pc = "copy"
  /\ \E r \in CopyDirResults(mainDir, rules[Cwd]) :
       /\ rules' = [rules EXCEPT ![Cwd] = r.dst]
       /\ calls' = Append(calls, Call("CopyDir", Cwd, r.ok))
       /\ IF r.ok
          THEN pc' = "register" /\ UNCHANGED outcome
          ELSE Return(ErrCopyRules)
  /\ UNCHANGED <<mainDir, projExists, registry, op, gitURL, fanout, prompts, env>>

\* Init, lines 174-183: register the current directory.
InitRegister ==
  /\ pc = "register"
  /\ \E r \in AddProjectResults(registry, Cwd) :
       /\ registry' = r.reg
       /\ calls' = Append(calls, Call("AddProject", Cwd, r.ok))
       /\ Return(IF r.ok THEN OK ELSE ErrRegistry)
  /\ UNCHANGED <<disk, op, gitURL, fanout, prompts, env>>

Next ==
  \/ InitCheckMainLocation
  \/ OfferChoice
  \/ CreateEmptyConfirm
  \/ CreateEmptyRemove
  \/ CreateEmptyMkdir
  \/ FetchPromptURL
  \/ FetchConfirm
  \/ FetchRemove
  \/ FetchValidate
  \/ FetchClone
  \/ InitCheckTarget
  \/ InitCopy
  \/ InitRegister
  \/ Sync
  \/ MergeCheckSource
  \/ MergeCopyToMain
  \/ SyncToAllStart
  \/ SyncToAllStep
  \/ SyncToAllEnd

\* One operation from any state of the disk.
Spec == InitialState /\ [][Next]_vars

\* One operation started right after NewSyncManager returned: its
\* os.MkdirAll(mainPath) (line 80) has made the main directory exist.
ConstructedState == InitialState /\ DirExists(mainDir)

SpecConstructed == ConstructedState /\ [][Next]_vars

\* The process is one sequential thread: a started operation takes its next
\* step (blocking calls return, the operator answers the prompts).
SpecFair == InitialState /\ [][Next]_vars /\ WF_vars(Next)

\* --------------------------------------------------------- NewSyncManager

\* Path ids of the application directories in the call log.
ConfigDirId == MainId - 2

DataDirId == MainId - 3

LogDirId == MainId - 4

ErrConfigDir == "cannot create config directory"

ErrDataDir == "cannot create data directory"

ErrLogDir == "cannot create log directory"

ErrMainDir == "cannot create main directory"

ErrLoadRegistry == "cannot load registry"

\* utils.EnsureDirExists(path, perm): the directory exists afterwards, or
\* the call fails and leaves the path as it was.
EnsureDirExistsResults(exists) ==
  {[ok |-> TRUE, exists |-> TRUE], [ok |-> FALSE, exists |-> exists]}

\* LoadRegistry(path, config): the stored entries (none when the file is
\* absent), or an error.
LoadRegistryResults(stored) ==
  {[ok |-> TRUE, reg |-> stored], [ok |-> FALSE, reg |-> <<>>]}

\* NewSyncManager, lines 62-75: one EnsureDirExists block.
NewEnsureDir(here, d, id, err, next) ==
  /\ pc = here
  /\ op' = "NewSyncManager"
  /\ \E r \in EnsureDirExistsResults(appDirs[d]) :
       /\ appDirs' = [appDirs EXCEPT ![d] = r.exists]
       /\ calls' = Append(calls, Call("EnsureDirExists", id, r.ok))
       /\ IF r.ok
          THEN pc' = next /\ UNCHANGED outcome
          ELSE Return(err)
  /\ UNCHANGED <<disk, registry, gitURL, fanout, prompts, pre, getwdOk, git>>

\* NewSyncManager, lines 62-65.
NewEnsureConfigDir ==
  NewEnsureDir("new", "config", ConfigDirId, ErrConfigDir, "new_data")

\* NewSyncManager, lines 67-70.
NewEnsureDataDir ==
  NewEnsureDir("new_data", "data", DataDirId, ErrDataDir, "new_log")

\* NewSyncManager, lines 72-75.
NewEnsureLogDir ==
  NewEnsureDir("new_log", "log", LogDirId, ErrLogDir, "new_main")

\* Variant: the error of os.MkdirAll(mainPath) is not returned.
NewMkdirMainIgnoringError ==
  /\ pc = "new_main"
  /\ \E r \in MkdirAllResults(mainDir) :
       /\ mainDir' = r.dir
       /\ calls' = Append(calls, Call("MkdirAll", MainId, r.ok))
  /\ pc' = "new_registry"
  /\ UNCHANGED <<projExists, rules, registry, op, outcome, gitURL, fanout,
                 prompts, env>>

\* NewSyncManager, lines 79-83: os.MkdirAll(mainPath).
NewMkdirMain ==
  /\ pc = "new_main"
  /\ \E r \in MkdirAllResults(mainDir) :
       /\ mainDir' = r.dir
       /\ calls' = Append(calls, Call("MkdirAll", MainId, r.ok))
       /\ IF r.ok
          THEN pc' = "new_registry" /\ UNCHANGED outcome
          ELSE Return(ErrMainDir)
  /\ UNCHANGED <<projExists, rules, registry, op, gitURL, fanout, prompts, env>>

\* NewSyncManager, lines 85-98: the registry is loaded and the manager is
\* returned, idle.
NewLoadRegistry ==
  /\ pc = "new_registry"
  /\ \E r \in LoadRegistryResults(pre.registry) :
       /\ registry' = r.reg
       /\ calls' = Append(calls, Call("LoadRegistry", NoPath, r.ok))
       /\ IF r.ok
          THEN pc' = "idle" /\ outcome' = OK
          ELSE Return(ErrLoadRegistry)
  /\ UNCHANGED <<disk, op, gitURL, fanout, prompts, env>>

\* Before NewSyncManager: any of the directories may be missing; the
\* registry file holds pre.registry (no entry when it is absent).
NewState ==
  /\ mainDir \in AllDirs
  /\ appDirs \in [AppDirNames -> BOOLEAN]
  /\ projExists = [p \in Paths |-> TRUE]
  /\ rules = [p \in Paths |-> OtherProjectRules]
  /\ registry = <<>>
  /\ \E stored \in UniqueSeqs :
       pre = [mainDir |-> mainDir, rules |-> rules, registry |-> stored]
  /\ op = "none"
  /\ pc = "new"
  /\ outcome = "none"
  /\ gitURL = "none"
  /\ projects = <<>>
  /\ idx = 0
  /\ succeeded = 0
  /\ failed = 0
  /\ prompts = <<>>
  /\ calls = <<>>
  /\ getwdOk = TRUE
  /\ git = NoGitService

NextNew ==
  \/ NewEnsureConfigDir
  \/ NewEnsureDataDir
  \/ NewEnsureLogDir
  \/ NewMkdirMain
  \/ NewLoadRegistry

SpecNew == NewState /\ [][NextNew]_vars

\* ------------------------------------------------------ GitCommandService

\* The number of GitService calls explored.
MaxGitCalls == 3

\* What a caller may pass to NewGitCommandService.
ExecutorArgs == {"nil", "shell", "mock"}

\* Arguments of the GitService methods.
GitURLs == {DefaultGitRepo, "git@host:missing.git"}

GitDirs == {"/rules/main", "/work/project"}

GitRefs == {"main", "v1.0"}

\* NewGitCommandService, lines 37-39: nil is replaced by the shell executor.
DefaultExecutor(executor) == IF executor = "nil" THEN "shell" ELSE executor

\* CommandExecutor.Execute(ctx, name, args...): the command is run once by
\* the executor and its error, if any, is returned.
Execute(g, argv, err) ==
  [g EXCEPT !.commands =
     Append(@, [exec |-> g.executor, argv |-> argv, err |-> err])]

\* A method of the service returns to its caller.
GitReturn(g, method, args, err) ==
  [g EXCEPT !.returns = Append(@, [method |-> method, args |-> args, err |-> err])]

\* NewGitCommandService, lines 36-41.
NewGitCommandService ==
  /\ git.executor = "none"
  /\ \E executor \in ExecutorArgs :
       git' = [git EXCEPT !.arg = executor, !.executor = DefaultExecutor(executor)]
  /\ UNCHANGED <<disk, registry, op, pc, outcome, gitURL, fanout, prompts,
                 calls, pre, getwdOk, appDirs>>

\* Variant: a failed clone is run a second time.
GitCloneRetrying ==
  /\ git.executor # "none"
  /\ Len(git.returns) < MaxGitCalls
  /\ \E url \in GitURLs, dest \in GitDirs, e1 \in BOOLEAN, e2 \in BOOLEAN :
       LET argv == <<"git", "clone", url, dest>>
           once == Execute(git, argv, e1)
           ran == IF e1 THEN Execute(once, argv, e2) ELSE once
       IN git' = GitReturn(ran, "Clone", <<url, dest>>,
                           IF e1 /\ e2 THEN "git clone failed" ELSE OK)
  /\ UNCHANGED <<disk, registry, op, pc, outcome, gitURL, fanout, prompts,
                 calls, pre, getwdOk, appDirs>>

\* GitCommandService.Clone, lines 44-50.
GitClone ==
  /\ git.executor # "none"
  /\ Len(git.returns) < MaxGitCalls
  /\ \E url \in GitURLs, dest \in GitDirs, err \in BOOLEAN :
       git' = GitReturn(Execute(git, <<"git", "clone", url, dest>>, err),
                        "Clone", <<url, dest>>,
                        IF err THEN "git clone failed" ELSE OK)
  /\ UNCHANGED <<disk, registry, op, pc, outcome, gitURL, fanout, prompts,
                 calls, pre, getwdOk, appDirs>>

\* GitCommandService.Pull, lines 53-59.
GitPull ==
  /\ git.executor # "none"
  /\ Len(git.returns) < MaxGitCalls
  /\ \E repoPath \in GitDirs, err \in BOOLEAN :
       git' = GitReturn(Execute(git, <<"git", "-C", repoPath, "pull">>, err),
                        "Pull", <<repoPath>>,
                        IF err THEN "git pull failed" ELSE OK)
  /\ UNCHANGED <<disk, registry, op, pc, outcome, gitURL, fanout, prompts,
                 calls, pre, getwdOk, appDirs>>

\* GitCommandService.Checkout, lines 62-68.
GitCheckout ==
  /\ git.executor # "none"
  /\ Len(git.returns) < MaxGitCalls
  /\ \E repoPath \in GitDirs, ref \in GitRefs, err \in BOOLEAN :
       git' = GitReturn(Execute(git, <<"git", "-C", repoPath, "checkout", ref>>,
                                err),
                        "Checkout", <<repoPath, ref>>,
                        IF err THEN "git checkout failed" ELSE OK)
  /\ UNCHANGED <<disk, registry, op, pc, outcome, gitURL, fanout, prompts,
                 calls, pre, getwdOk, appDirs>>

\* No service has been made; the SyncManager is not involved.
GitState ==
  /\ mainDir = EmptyDir
  /\ projExists = [p \in Paths |-> TRUE]
  /\ rules = [p \in Paths |-> OtherProjectRules]
  /\ registry = <<>>
  /\ op = "none"
  /\ pc = "idle"
  /\ outcome = "none"
  /\ gitURL = "none"
  /\ projects = <<>>
  /\ idx = 0
  /\ succeeded = 0
  /\ failed = 0
  /\ prompts = <<>>
  /\ calls = <<>>
  /\ pre = Snapshot
  /\ getwdOk = TRUE
  /\ appDirs = [d \in AppDirNames |-> TRUE]
  /\ git = NoGitService

NextGit ==
  \/ NewGitCommandService
  \/ GitClone
  \/ GitPull
  \/ GitCheckout

SpecGit == GitState /\ [][NextGit]_vars

\* ---------------------------------------------------------------- the logs

HasCall(fn) == \E i \in 1..Len(calls) : calls[i].fn = fn

HasCallResult(fn, ok) ==
  \E i \in 1..Len(calls) : calls[i].fn = fn /\ calls[i].ok = ok

HasPrompt(kind, answer) ==
  \E i \in 1..Len(prompts) : prompts[i] = Prompt(kind, answer)

NumCalls(fn, dst) ==
  Cardinality({i \in 1..Len(calls) : calls[i].fn = fn /\ calls[i].dst = dst})

IsDirExists(c) == c.fn = "DirExists"

\* syncToAll: the projects whose iteration has run, in order.
Visited == SelectSeq(calls, IsDirExists)

\* syncToAll: the number of copies to projects that succeeded.
ProjectCopiesOk ==
  Cardinality({i \in 1..Len(calls) :
                 calls[i].fn = "CopyDir" /\ calls[i].dst \in Paths /\ calls[i].ok})

\* Merge has entered syncToAll (and, once done, has come back from it).
InFanOut ==
  /\ op = "Merge"
  /\ pc = "fanout" \/ (pc = "done" /\ outcome = OK)

\* ------------------------------------------------------------------ claims

\* C1: fan-out isolation.  While syncToAll runs and when it has ended, the
\* projects processed so far are exactly the first idx-1 entries of the
\* registry snapshot, each once and in order; each of them that exists on
\* disk has had exactly one copy attempt and each missing one none, whatever
\* happened to the earlier ones; succeeded + failed is the number processed
\* and succeeded is the number of copies that succeeded.  When the loop has
\* ended every entry of the snapshot has been processed.
C1_FanOutIsolation ==
  InFanOut =>
    /\ projects = pre.registry
    /\ pc = "done" => idx = Len(projects) + 1
    /\ idx \in 1..(Len(projects) + 1)
    /\ Len(Visited) = idx - 1
    /\ \A i \in 1..(idx - 1) :
         /\ Visited[i].dst = projects[i]
         /\ NumCalls("DirExists", projects[i]) = 1
         /\ NumCalls("CopyDir", projects[i])
              = IF projExists[projects[i]] THEN 1 ELSE 0
    /\ succeeded + failed = idx - 1
    /\ succeeded = ProjectCopiesOk

\* C1 witness: three projects, the copy to the second fails, the first and
\* the third are copied: succeeded = 2, failed = 1.
C1_Witness ==
  /\ op = "Merge" /\ pc = "done" /\ outcome = OK
  /\ Len(projects) = 3
  /\ calls[Len(calls)] = Call("CopyDir", projects[3], TRUE)
  /\ \E i \in 1..Len(calls) : calls[i] = Call("CopyDir", projects[2], FALSE)
  /\ \E i \in 1..Len(calls) : calls[i] = Call("CopyDir", projects[1], TRUE)
  /\ succeeded = 2 /\ failed = 1

\* C2: Merge's precondition.  When the current directory (known: Getwd
\* succeeded) has no rules subdirectory, Merge ends at once with the
\* not-found error, having made no collaborator call that writes: mainPath,
\* every project's rules subdirectory and the registry are as before.
C2_MergePrecondition ==
  (op = "Merge" /\ getwdOk /\ ~DirExists(pre.rules[Cwd])) =>
    /\ pc = "done"
    /\ outcome = ErrNotFound
    /\ Snapshot = pre
    /\ calls = <<>>

\* C2 witness: Merge has returned not-found with projects registered and a
\* main directory on disk.
C2_Witness ==
  /\ op = "Merge" /\ getwdOk /\ ~DirExists(pre.rules[Cwd])
  /\ pc = "done" /\ outcome = ErrNotFound
  /\ Len(registry) >= 2
  /\ DirExists(mainDir)

\* C3: Init aborts on a declined overwrite.  Once the operator has answered
\* no to the overwrite prompt, Init has returned "cancelled by user", the
\* target holds what it held, no copy and no registration was started and
\* the registry is as before.
C3_InitDeclinedOverwrite ==
  (op = "Init" /\ HasPrompt("confirm_overwrite", "no")) =>
    /\ pc = "done"
    /\ outcome = ErrCancelled
    /\ rules = pre.rules
    /\ ~HasCall("CopyDir")
    /\ ~HasCall("AddProject")
    /\ registry = pre.registry

\* C3 witness: the target existed and was not empty, the operator declined.
C3_Witness ==
  /\ op = "Init" /\ pc = "done"
  /\ DirExists(pre.rules[Cwd]) /\ pre.rules[Cwd].files # {}
  /\ HasPrompt("confirm_overwrite", "no")
  /\ outcome = ErrCancelled

\* Init ended because a collaborator call failed.
TechnicalFailure == \E i \in 1..Len(calls) : ~calls[i].ok

\* The operator chose "Cancel operation" or answered no to a confirmation.
OperatorCancelled ==
  \/ HasPrompt("choice", Options[3])
  \/ HasPrompt("confirm_remove", "no")
  \/ HasPrompt("confirm_overwrite", "no")

\* C4: Init's cancellation outcome is distinct from its technical-failure
\* outcome.  A finished Init whose collaborator call failed (RemoveAll,
\* MkdirAll, IsValidRepo, Clone, ListDirectoryContents, CopyDir, AddProject)
\* has not returned "cancelled by user", and Init returns "cancelled by
\* user" only when the operator chose Cancel or declined a confirmation.
C4_CancelledOnlyByOperator ==
  (op = "Init" /\ pc = "done") =>
    /\ TechnicalFailure => outcome # ErrCancelled
    /\ outcome = ErrCancelled => OperatorCancelled

\* C5: in the Fetch choice, once the entered URL has failed validation,
\* nothing has been mutated: mainPath, the target and the registry are as
\* they were when Init started, and mainPath has not been removed.
C5_InvalidURLNoMutation ==
  (op = "Init" /\ HasCallResult("IsValidRepo", FALSE)) =>
    /\ Snapshot = pre
    /\ ~HasCall("RemoveAll")

\* C6: a failed clone is followed at once by CleanupOnFailure(mainPath) and
\* ends Init without success: nothing runs after the cleanup, no overwrite
\* prompt was shown, the target was neither listed nor copied to and the
\* current directory was not registered.  CleanupOnFailure is called
\* nowhere else: in any operation, each of its calls directly follows a
\* failed clone.
C6_CloneFailureCleanup ==
  /\ \A i \in 1..Len(calls) :
       (calls[i].fn = "Clone" /\ ~calls[i].ok) =>
         /\ Len(calls) = i + 1
         /\ calls[i + 1] = Call("CleanupOnFailure", MainId, TRUE)
         /\ pc = "done"
         /\ outcome \notin {OK, "none"}
         /\ \A j \in 1..Len(prompts) : prompts[j].kind # "confirm_overwrite"
         /\ ~HasCall("ListDirectoryContents")
         /\ ~HasCall("CopyDir")
         /\ ~HasCall("AddProject")
         /\ rules = pre.rules
         /\ registry = pre.registry
  /\ \A j \in 1..Len(calls) :
       calls[j].fn = "CleanupOnFailure" =>
         /\ op = "Init"
         /\ j > 1
         /\ calls[j - 1] = Call("Clone", MainId, FALSE)

\* C6 witness: the clone failed in a directory whose non-empty target would
\* have raised the overwrite prompt.
C6_Witness ==
  /\ op = "Init" /\ pc = "done"
  /\ HasCallResult("Clone", FALSE)
  /\ HasCall("CleanupOnFailure")
  /\ pre.rules[Cwd].files # {}

\* C7: Merge's ordering.  Fan-out starts, and a project is checked or
\* written, only after the copy to mainPath has succeeded, and that copy
\* runs once; when it fails Merge has returned its error with no project's
\* rules subdirectory checked or written.
C7_MergeOrdering ==
  op = "Merge" =>
    /\ NumCalls("CopyDir", MainId) <= 1
    /\ (pc \in {"fanout_start", "fanout"}
          \/ \E i \in 1..Len(calls) : calls[i].dst \in Paths)
         => (Len(calls) >= 1 /\ calls[1] = Call("CopyDir", MainId, TRUE))
    /\ HasCallResult("CopyDir", FALSE) /\ calls[1].dst = MainId /\ ~calls[1].ok
         => /\ pc = "done"
            /\ outcome = ErrCopyMain
            /\ Len(calls) = 1
            /\ rules = pre.rules

\* C7 witness: the copy to main failed with existing projects registered.
C7_Witness ==
  /\ op = "Merge" /\ pc = "done" /\ outcome = ErrCopyMain
  /\ calls = <<Call("CopyDir", MainId, FALSE)>>
  /\ Len(registry) >= 2
  /\ \A i \in 1..Len(registry) : projExists[registry[i]]

\* C8 (as claimed): whenever Init succeeds after the clone, or Merge
\* succeeds, mainPath holds a valid ruleset: it is non-empty and holds at
\* least one rule file.
C8_MainValidAfterSuccess ==
  (/\ pc = "done" /\ outcome = OK
   /\ op = "Merge" \/ (op = "Init" /\ HasCallResult("Clone", TRUE)))
    => (DirExists(mainDir) /\ mainDir.files # {} /\ HasMDCFiles(mainDir))

\* C8 (amended): whenever Merge succeeds, mainPath exists and holds every
\* file of <cwd>/<rulesDirName> as it was when Merge started, and the copy
\* to main was made and succeeded; whenever Init succeeds after the clone,
\* mainPath exists and nothing has touched it since the clone.  No check
\* for rule files is made on either path.
C8_MainAfterSuccess ==
  (pc = "done" /\ outcome = OK) =>
    /\ op = "Merge" =>
         /\ DirExists(mainDir)
         /\ pre.rules[Cwd].files \subseteq mainDir.files
         /\ calls[1] = Call("CopyDir", MainId, TRUE)
    /\ (op = "Init" /\ HasCallResult("Clone", TRUE)) =>
         /\ DirExists(mainDir)
         /\ \A i, j \in 1..Len(calls) :
              (calls[i].fn = "Clone" /\ j > i) => calls[j].dst # MainId

\* C8 witness: Merge succeeded and mainPath holds no rule file.
C8_Witness ==
  /\ op = "Merge" /\ pc = "done" /\ outcome = OK
  /\ DirExists(mainDir)
  /\ ~HasMDCFiles(mainDir)

\* C9: Sync is non-interactive.  Sync returns in one step without any
\* prompt; with the current directory known it makes exactly one call, the
\* copy mainPath -> <cwd>/<rulesDirName>, whatever the target held; it
\* returns nil exactly when that copy succeeded and the copy's own error
\* otherwise; mainPath and the other projects are not written.
C9_SyncNonInteractive ==
  op = "Sync" =>
    /\ pc = "done"
    /\ prompts = <<>>
    /\ mainDir = pre.mainDir
    /\ getwdOk =>
         /\ Len(calls) = 1
         /\ calls[1].fn = "CopyDir" /\ calls[1].dst = Cwd
         /\ outcome = OK <=> calls[1].ok
         /\ ~calls[1].ok => outcome = ErrCopy
         /\ \A p \in Paths \ {Cwd} : rules[p] = pre.rules[p]

\* C9 witness: Sync succeeded over an existing, non-empty target and
\* changed it.
C9_Witness ==
  /\ op = "Sync" /\ pc = "done" /\ outcome = OK
  /\ pre.rules[Cwd].files # {}
  /\ rules[Cwd] # pre.rules[Cwd]

\* C10: in NeedsSetup an existing mainPath is removed, or loses a file,
\* only after the operator answered yes to the removal prompt of this run;
\* once the operator has answered no to it (in the Create-empty or in the
\* Fetch branch) Init has returned "cancelled by user", mainPath is intact
\* and neither a removal, the copy nor the registration has run.
C10_MainDeletedOnlyAfterYes ==
  op = "Init" =>
    /\ (/\ DirExists(pre.mainDir)
        /\ \/ HasCall("RemoveAll")
           \/ ~DirExists(mainDir)
           \/ ~(pre.mainDir.files \subseteq mainDir.files))
         => HasPrompt("confirm_remove", "yes")
    /\ HasPrompt("confirm_remove", "no") =>
         /\ pc = "done"
         /\ outcome = ErrCancelled
         /\ mainDir = pre.mainDir
         /\ ~HasCall("RemoveAll")
         /\ ~HasCall("CopyDir")
         /\ ~HasCall("AddProject")
         /\ rules = pre.rules
         /\ registry = pre.registry

\* C10 witness: the operator declined the removal in the Fetch branch, with
\* a main directory that holds files.
C10_Witness ==
  /\ op = "Init" /\ pc = "done" /\ outcome = ErrCancelled
  /\ HasPrompt("choice", Options[2])
  /\ HasPrompt("confirm_remove", "no")
  /\ mainDir.files # {}

\* C11: Merge, its fan-out included, and Sync never mutate the registry: in
\* every state of either operation the registry holds the entries it held
\* when the operation started, in the same order, also after fan-out has
\* skipped a project whose directory is missing or failed on one, and also
\* when the current directory is not registered.
C11_RegistryUntouched ==
  op \in {"Merge", "Sync"} => registry = pre.registry

\* C11 witness: Merge ran from an unregistered current directory, fan-out
\* skipped a missing project and failed on another, and has ended.
C11_Witness ==
  /\ op = "Merge" /\ pc = "done" /\ outcome = OK
  /\ Cwd \notin Range(registry)
  /\ HasCallResult("DirExists", FALSE)
  /\ HasCallResult("CopyDir", FALSE)
  /\ failed = 2

\* C12: Init's registration ordering.  AddProject(cwd) is called only
\* directly after the copy mainPath -> target has succeeded; as long as it
\* has not been called (every abort before or during the copy) the registry
\* is as it was; a failed copy ends Init with the copy failure; a failed
\* AddProject ends Init with the registry's own error, which is neither the
\* copy failure nor success, with the registry as it was and the copied
\* files at the target; Init returns nil only after both the copy and the
\* registration succeeded, the current directory then being registered.
C12_RegistrationOrdering ==
  op = "Init" =>
    /\ \A i \in 1..Len(calls) :
         calls[i].fn = "AddProject" =>
           (i > 1 /\ calls[i - 1] = Call("CopyDir", Cwd, TRUE))
    /\ ~HasCall("AddProject") => registry = pre.registry
    /\ HasCallResult("CopyDir", FALSE) =>
         /\ pc = "done"
         /\ outcome = ErrCopyRules
         /\ ~HasCall("AddProject")
    /\ HasCallResult("AddProject", FALSE) =>
         /\ pc = "done"
         /\ outcome = ErrRegistry
         /\ outcome \notin {ErrCopyRules, ErrCancelled, OK}
         /\ registry = pre.registry
         /\ DirExists(rules[Cwd])
         /\ mainDir.files \subseteq rules[Cwd].files
    /\ (pc = "done" /\ outcome = OK) =>
         /\ HasCallResult("CopyDir", TRUE)
         /\ HasCallResult("AddProject", TRUE)
         /\ Cwd \in Range(registry)

\* C12 witness: the copy changed the target and the registration failed.
C12_Witness ==
  /\ op = "Init" /\ pc = "done" /\ outcome = ErrRegistry
  /\ HasCallResult("AddProject", FALSE)
  /\ rules[Cwd] # pre.rules[Cwd]
  /\ Cwd \notin Range(registry)

\* Merge has found the rules subdirectory and copied it to mainPath.
MergeCopiedToMain ==
  /\ op = "Merge"
  /\ Len(calls) >= 1
  /\ calls[1] = Call("CopyDir", MainId, TRUE)

\* C13: Merge never escalates a per-project failure.  Once the copy to
\* mainPath has succeeded, Merge goes on to end with nil, and whenever it
\* has ended it has returned nil with fan-out run to the end of the
\* registry snapshot, however many projects failed.
C13_MergeNeverEscalates ==
  /\ [](MergeCopiedToMain /\ pc = "done" =>
          /\ outcome = OK
          /\ projects = pre.registry
          /\ idx = Len(projects) + 1
          /\ succeeded + failed = Len(projects))
  /\ MergeCopiedToMain ~> (pc = "done" /\ outcome = OK)

\* C13 witness: all three registered projects failed and Merge returned nil.
C13_Witness ==
  /\ MergeCopiedToMain /\ pc = "done" /\ outcome = OK
  /\ Len(projects) = 3
  /\ failed = 3

\* Init has presented, or is about to present, the three-way setup choice.
SetupOffered ==
  \/ pc = "offer"
  \/ \E i \in 1..Len(prompts) : prompts[i].kind = "choice"

\* C14: Init enters NeedsSetup exactly when mainPath is missing or holds no
\* rule file (the current directory being known and the rule-file check
\* having returned no error).  When mainPath exists with a rule file no
\* setup choice is shown and mainPath is never removed, created or cloned
\* into.  When the rule-file check returns an error Init has ended with
\* that error, having shown no prompt, made no call and changed nothing.
C14_NeedsSetupIff ==
  op = "Init" =>
    LET needs == ~DirExists(pre.mainDir) \/ ~HasMDCFiles(pre.mainDir) IN
    /\ SetupOffered => needs
    /\ (getwdOk /\ outcome # ErrMDC /\ needs) => SetupOffered
    /\ ~needs =>
         /\ ~SetupOffered
         /\ mainDir = pre.mainDir
         /\ \A i \in 1..Len(calls) : calls[i].dst # MainId
    /\ outcome = ErrMDC =>
         /\ DirExists(pre.mainDir)
         /\ pc = "done"
         /\ prompts = <<>>
         /\ calls = <<>>
         /\ Snapshot = pre

\* C14 witness: mainPath existed with files but no rule file; the choice was
\* shown and Init went on to succeed.
C14_Witness ==
  /\ op = "Init" /\ pc = "done" /\ outcome = OK
  /\ pre.mainDir = Dir({"notes.txt"})
  /\ SetupOffered

\* Init has left CheckTarget for the copy.
PastCheckTarget == pc \in {"copy", "register"} \/ HasCall("CopyDir")

\* C15: in CheckTarget the overwrite confirmation is issued exactly when
\* the target exists and is not empty.  An overwrite prompt has been shown
\* only for an existing, non-empty target that was listed without error;
\* Init has gone on to the copy over such a target only after a yes to that
\* prompt; the target has been listed exactly when it exists and Init has
\* come through CheckTarget; a failure to list the target has ended Init
\* with the listing error, with no prompt about the target, no copy and no
\* registration, and nothing changed.
C15_OverwriteConfirmIff ==
  op = "Init" =>
    LET target == pre.rules[Cwd]
        nonEmpty == DirExists(target) /\ target.files # {}
    IN
    /\ (\E i \in 1..Len(prompts) : prompts[i].kind = "confirm_overwrite")
         => (nonEmpty /\ HasCallResult("ListDirectoryContents", TRUE))
    /\ (PastCheckTarget /\ nonEmpty) => HasPrompt("confirm_overwrite", "yes")
    /\ HasCall("ListDirectoryContents") <=>
         (DirExists(target) /\ (PastCheckTarget \/ outcome = ErrList
                                  \/ HasPrompt("confirm_overwrite", "no")))
    /\ HasCallResult("ListDirectoryContents", FALSE) =>
         /\ pc = "done"
         /\ outcome = ErrList
         /\ \A i \in 1..Len(prompts) : prompts[i].kind # "confirm_overwrite"
         /\ ~HasCall("CopyDir")
         /\ ~HasCall("AddProject")
         /\ rules = pre.rules
         /\ registry = pre.registry

\* C15 witness: the target was not empty, the operator said yes and the copy
\* was made over it.
C15_Witness ==
  /\ op = "Init" /\ pc = "done" /\ outcome = OK
  /\ pre.rules[Cwd].files # {}
  /\ HasPrompt("confirm_overwrite", "yes")
  /\ HasCallResult("CopyDir", TRUE)

\* NewSyncManager's steps in order, and the error each returns on failure.
NewSteps ==
  <<[fn |-> "EnsureDirExists", dst |-> ConfigDirId, err |-> ErrConfigDir],
    [fn |-> "EnsureDirExists", dst |-> DataDirId, err |-> ErrDataDir],
    [fn |-> "EnsureDirExists", dst |-> LogDirId, err |-> ErrLogDir],
    [fn |-> "MkdirAll", dst |-> MainId, err |-> ErrMainDir],
    [fn |-> "LoadRegistry", dst |-> NoPath, err |-> ErrLoadRegistry]>>

\* NewSyncManager has returned a manager.
ManagerReturned == op = "NewSyncManager" /\ pc = "idle"

\* C16: NewSyncManager is all-or-nothing.  Its steps run in order, each at
\* most once: config, data and log directory, main directory, registry
\* load.  A failed step is the last step made, and NewSyncManager has then
\* returned that step's error and no manager; it returns an error only
\* after a failed step.  When it has returned a manager all five steps
\* were made and succeeded, the application directories and mainPath exist
\* on disk and the manager's registry holds the stored entries.
C16_NewSyncManagerAllOrNothing ==
  op = "NewSyncManager" =>
    /\ Len(calls) <= Len(NewSteps)
    /\ \A i \in 1..Len(calls) :
         /\ calls[i].fn = NewSteps[i].fn
         /\ calls[i].dst = NewSteps[i].dst
         /\ ~calls[i].ok =>
              /\ i = Len(calls)
              /\ pc = "done"
              /\ outcome = NewSteps[i].err
              /\ registry = <<>>
    /\ pc = "done" => ~calls[Len(calls)].ok
    /\ pc \in {"done", "idle"} \/ outcome = "none"
    /\ ManagerReturned =>
         /\ outcome = OK
         /\ Len(calls) = Len(NewSteps)
         /\ \A i \in 1..Len(calls) : calls[i].ok
         /\ \A d \in AppDirNames : appDirs[d]
         /\ DirExists(mainDir)
         /\ registry = pre.registry

\* C16 witness: a manager was returned where mainPath was missing before
\* and the registry file held three projects.
C16_Witness ==
  /\ ManagerReturned
  /\ ~DirExists(pre.mainDir)
  /\ DirExists(mainDir)
  /\ Len(registry) = 3

\* The number of prompts of one kind shown so far.
NumPrompts(kind) ==
  Cardinality({i \in 1..Len(prompts) : prompts[i].kind = kind})

\* What Init returns: nil, the cancellation or one of its failures.
InitOutcomes ==
  {OK, ErrCancelled, ErrCwd, ErrMDC, ErrList, ErrCopyRules, ErrRegistry}

\* The positions of Init and offerMainLocationOptions in program order;
\* the two branches of the setup choice share no position.
InitRank ==
  [s \in {"idle", "offer", "create", "create_remove", "create_mkdir",
          "fetch_url", "fetch_confirm", "fetch_remove", "fetch_validate",
          "fetch_clone", "check_target", "copy", "register", "done"} |->
     CASE s = "idle" -> 0
       [] s = "offer" -> 1
       [] s \in {"create", "fetch_url"} -> 2
       [] s \in {"create_remove", "fetch_confirm"} -> 3
       [] s \in {"create_mkdir", "fetch_remove"} -> 4
       [] s = "fetch_validate" -> 5
       [] s = "fetch_clone" -> 6
       [] s = "check_target" -> 7
       [] s = "copy" -> 8
       [] s = "register" -> 9
       [] OTHER -> 10]

\* C17: Init always terminates in exactly one terminal outcome.  Every
\* started Init finishes; it has no outcome before it finishes, and when it
\* has finished its outcome is nil, "cancelled by user" or one of its
\* failures, and neither the outcome nor anything else changes afterwards.
\* Every step of Init moves to a later position of the program, so no
\* position is visited twice.  A run shows at most one setup choice, at
\* most one URL prompt, at most one confirmation to remove mainPath and at
\* most one confirmation to overwrite the target, the URL prompt and the
\* removal confirmation only after the setup choice.
C17_InitTerminatesOnce ==
  /\ [](op = "Init" =>
          /\ pc = "done" => outcome \in InitOutcomes
          /\ pc # "done" => outcome = "none"
          /\ NumPrompts("choice") <= 1
          /\ NumPrompts("url") <= 1
          /\ NumPrompts("confirm_remove") <= 1
          /\ NumPrompts("confirm_overwrite") <= 1
          /\ NumPrompts("url") <= NumPrompts("choice")
          /\ NumPrompts("confirm_remove") <= NumPrompts("choice")
          /\ Len(prompts) = NumPrompts("choice") + NumPrompts("url")
               + NumPrompts("confirm_remove") + NumPrompts("confirm_overwrite"))
  /\ [][/\ op' = "Init" => InitRank[pc] < InitRank[pc']
        /\ pc # "done"]_vars
  /\ (op = "Init") ~> (op = "Init" /\ pc = "done")

\* C17 witness: Init has succeeded after all four prompts were answered:
\* fetch from git, a URL, yes to removing mainPath, yes to overwriting.
C17_Witness ==
  /\ op = "Init"
  /\ pc = "done"
  /\ outcome = OK
  /\ HasPrompt("choice", Options[2])
  /\ NumPrompts("url") = 1
  /\ HasPrompt("confirm_remove", "yes")
  /\ HasPrompt("confirm_overwrite", "yes")

\* The git command line a GitService call is to run.
ExpectedArgv(r) ==
  CASE r.method = "Clone" -> <<"git", "clone", r.args[1], r.args[2]>>
    [] r.method = "Pull" -> <<"git", "-C", r.args[1], "pull">>
    [] r.method = "Checkout" -> <<"git", "-C", r.args[1], "checkout", r.args[2]>>

\* C18: each call of Clone, Pull or Checkout has run exactly one git
\* command through the service's executor (the i-th command belongs to the
\* i-th call and is that call's command line; there is no other command),
\* and has returned an error exactly when the executor returned one.  A
\* service that exists has an executor: the shell executor when
\* NewGitCommandService was given nil, the given executor otherwise.
C18_OneCommandPerCall ==
  /\ Len(git.commands) = Len(git.returns)
  /\ \A i \in 1..Len(git.returns) :
       /\ i <= Len(git.commands)
       /\ git.commands[i].argv = ExpectedArgv(git.returns[i])
       /\ git.commands[i].exec = git.executor
       /\ git.returns[i].err # OK <=> git.commands[i].err
  /\ git.arg # "none" =>
       /\ git.executor \notin {"none", "nil"}
       /\ git.arg = "nil" => git.executor = "shell"
       /\ git.arg # "nil" => git.executor = git.arg

\* C18 witness: a service made from a nil executor has run a failed clone,
\* a pull and a failed checkout.
C18_Witness ==
  /\ git.arg = "nil"
  /\ Len(git.returns) = 3
  /\ git.returns[1].method = "Clone" /\ git.returns[1].err # OK
  /\ git.returns[2].method = "Pull" /\ git.returns[2].err = OK
  /\ git.returns[3].method = "Checkout" /\ git.returns[3].err # OK

====
